---------------------------- MODULE Spec2Model ----------------------------
(***************************************************************************)
(* State-machine model of the clinic application in src/App.tsx: the three *)
(* in-memory collections (patients, appointments, prescriptions), the      *)
(* dialogs with the snapshots they hold, and the handlers that mutate      *)
(* them.                                                                   *)
(*                                                                         *)
(* Conventions.  Identifiers are integers: the k-th reading of Date.now()  *)
(* is the integer `now`, and `p${Date.now()}`, `a${Date.now()}`, ... are   *)
(* that integer within their own collection.  null and the empty string    *)
(* (both falsy in the code) are NoId.  A nullable object (Appointment |    *)
(* null) is a sequence of length 0 or 1.  Money is counted in whole units. *)
(* A medication name is a sequence of characters.                          *)
(***************************************************************************)
EXTENDS Integers, Sequences, FiniteSets, TLC

\* ------------------------------------------------------------- bounds
\* Largest reading of the clock: bounds the number of records created.
MaxClock == 3
\* Largest fee and payment amount a form submits.
MaxFee == 2
\* Largest number of medication rows a prescription form submits.
MaxRows == 2
\* Largest fee / paid amount enumerated for calculatePaymentStatus alone.
MaxCalc == 7
\* Largest number of creations that read a clock value an earlier creation read.
MaxSameReadings == 1

\* ------------------------------------------------------------- values
\* null / '' for an identifier
NoId == 0

Views == {"dashboard", "patients", "patientDetail", "appointments",
          "prescriptions", "billing"}
NavViews == {"dashboard", "patients", "appointments", "prescriptions", "billing"}

\* PaymentStatus (types)
Paid == "Paid"
PartiallyPaid == "Partially Paid"
Unpaid == "Unpaid"

\* Payment['method'] values a form submits (the seed payment is "Cash")
Methods == {"Card"}

\* Patient names a form submits
Names == {"Ann"}

\* Fees and amounts a number input submits (parseFloat(value) || 0)
Fees == 0 .. MaxFee
Amounts == 0 .. (MaxFee + 1)

\* Appointment dates: one in the past (seed data only), one later than every reading
\* of the clock, which is the date a form submits
PastDate == 0 - 1
FutureDate == MaxClock + 1
Dates == {FutureDate}

\* Medication names a form submits: '', ' ', ' a'
MedNames == {<<>>, <<" ">>, <<" ", "a">>}

\* ------------------------------------------------------------- helpers
\* Array.prototype.filter is SelectSeq; Array.prototype.map is written pointwise.
Range(s) == {s[i] : i \in 1 .. Len(s)}
Ids(s) == {s[i].id : i \in 1 .. Len(s)}
\* Array.prototype.find over the elements that pass: the first one, as a sequence
\* of length 0 or 1
First(hits) == IF hits = <<>> THEN <<>> ELSE <<Head(hits)>>

RECURSIVE SumAmounts(_)
\* paymentHistory.reduce((sum, p) => sum + p.amount, 0)
SumAmounts(h) == IF h = <<>> THEN 0 ELSE SumAmounts(SubSeq(h, 1, Len(h) - 1)) + h[Len(h)].amount

getPaidAmount(appointment) == SumAmounts(appointment.paymentHistory)

\* faulty variant: Paid only when more than the fee was paid
calculatePaymentStatus_strict(totalFee, paidAmount) ==
    IF paidAmount > totalFee /\ totalFee > 0 THEN Paid
    ELSE IF paidAmount > 0 /\ paidAmount < totalFee THEN PartiallyPaid
    ELSE Unpaid

\* faulty variant: the first test forgets totalFee > 0
calculatePaymentStatus_noFeeTest(totalFee, paidAmount) ==
    IF paidAmount >= totalFee THEN Paid
    ELSE IF paidAmount > 0 /\ paidAmount < totalFee THEN PartiallyPaid
    ELSE Unpaid

calculatePaymentStatus(totalFee, paidAmount) ==
    IF paidAmount >= totalFee /\ totalFee > 0 THEN Paid
    ELSE IF paidAmount > 0 /\ paidAmount < totalFee THEN PartiallyPaid
    ELSE Unpaid

RECURSIVE TrimStart(_)
TrimStart(s) == IF s # <<>> /\ Head(s) = " " THEN TrimStart(Tail(s)) ELSE s
RECURSIVE TrimEnd(_)
TrimEnd(s) == IF s # <<>> /\ s[Len(s)] = " " THEN TrimEnd(SubSeq(s, 1, Len(s) - 1)) ELSE s
\* String.prototype.trim
Trim(s) == TrimEnd(TrimStart(s))


\* ------------------------------------------------------------- state
VARIABLES
    patients, appointments, prescriptions,
    currentView, selectedPatientId, newlyCreatedPatientId,
    isPatientModalOpen, editingPatient, isInlinePatientModalOpen,
    isAppointmentModalOpen, editingAppointment, appointmentForPatientId,
    formPatientId,  \* the patientId state of the mounted AppointmentForm
    isPrescriptionModalOpen, editingPrescription, prescriptionForPatientId,
    isPrescriptionViewModalOpen, viewingAppointment,
    isPaymentModalOpen, paymentForAppointment,
    now,        \* the last reading of Date.now()
    sameReadings,   \* how many creations may still read the value an earlier one read
    lastOp,     \* the handler that ran last and how it ended
    calcFee, calcPaid, calcStatus   \* an isolated call of calculatePaymentStatus

storeVars == <<patients, appointments, prescriptions>>
navVars == <<currentView, selectedPatientId>>
patientDlgVars == <<isPatientModalOpen, editingPatient, isInlinePatientModalOpen, newlyCreatedPatientId>>
appointmentDlgVars == <<isAppointmentModalOpen, editingAppointment, appointmentForPatientId,
                        formPatientId>>
prescriptionDlgVars == <<isPrescriptionModalOpen, editingPrescription, prescriptionForPatientId>>
rxViewVars == <<isPrescriptionViewModalOpen, viewingAppointment>>
paymentDlgVars == <<isPaymentModalOpen, paymentForAppointment>>
calcVars == <<calcFee, calcPaid, calcStatus>>
clockVars == <<now, sameReadings>>
vars == <<storeVars, navVars, patientDlgVars, appointmentDlgVars, prescriptionDlgVars,
          rxViewVars, paymentDlgVars, clockVars, lastOp, calcVars>>

\* lastOp: the handler, how it ended, and what was submitted to it (the amount of a
\* payment form, the rows of a prescription form, the id a row button passed)
OpOn(name, res, amount, rows, id) ==
    [op |-> name, res |-> res, amount |-> amount, rows |-> rows, id |-> id]
OpWith(name, res, amount, rows) == OpOn(name, res, amount, rows, 0)
Op(name, res) == OpWith(name, res, 0, <<>>)

\* ------------------------------------------------------------- seed data
SeedPatients == << [id |-> 1, name |-> "Ann"], [id |-> 2, name |-> "Bob"] >>

SeedAppointments ==
    << [id |-> 1, patientId |-> 1, date |-> FutureDate, totalFee |-> 2,
        paymentHistory |-> <<>>, paymentStatus |-> Unpaid],
       [id |-> 2, patientId |-> 2, date |-> PastDate, totalFee |-> 2,
        paymentHistory |-> << [id |-> 1, date |-> 0, amount |-> 1, method |-> "Cash"] >>,
        paymentStatus |-> PartiallyPaid] >>

SeedPrescriptions ==
    << [id |-> 1, patientId |-> 1, appointmentId |-> 1,
        medications |-> << [id |-> 1, medication |-> <<" ", "a">>] >>, dateIssued |-> 0] >>

\* The clock starts after every identifier of the seed data.
SeedClock == Len(SeedPatients)

UiInit ==
    /\ currentView = "dashboard"
    /\ selectedPatientId = NoId
    /\ newlyCreatedPatientId = NoId
    /\ isPatientModalOpen = FALSE
    /\ editingPatient = <<>>
    /\ isInlinePatientModalOpen = FALSE
    /\ isAppointmentModalOpen = FALSE
    /\ editingAppointment = <<>>
    /\ appointmentForPatientId = NoId
    /\ formPatientId = NoId
    /\ isPrescriptionModalOpen = FALSE
    /\ editingPrescription = <<>>
    /\ prescriptionForPatientId = NoId
    /\ isPrescriptionViewModalOpen = FALSE
    /\ viewingAppointment = <<>>
    /\ isPaymentModalOpen = FALSE
    /\ paymentForAppointment = <<>>

StoreInit ==
    /\ patients = SeedPatients
    /\ appointments = SeedAppointments
    /\ prescriptions = SeedPrescriptions
    /\ now = SeedClock
    /\ sameReadings = 0
    /\ lastOp = Op("init", "ok")

CalcIdle == calcFee = 0 /\ calcPaid = 0 /\ calcStatus = "none"

Init == StoreInit /\ UiInit /\ CalcIdle

\* ------------------------------------------------------------- rendering
\* selectedPatient = patients.find(p => p.id === selectedPatientId)
selectedPatient == LET Sel(p) == p.id = selectedPatientId IN First(SelectSeq(patients, Sel))

\* PrescriptionViewModal renders its Modal only with an appointment and its patient.
PrescriptionViewShown ==
    /\ isPrescriptionViewModalOpen
    /\ viewingAppointment # <<>>
    /\ \E i \in 1 .. Len(patients) : patients[i].id = viewingAppointment[1].patientId

\* A Modal that is open covers the page: the page's controls take no input.
AnyModalOpen ==
    \/ isPatientModalOpen
    \/ isInlinePatientModalOpen
    \/ isAppointmentModalOpen
    \/ isPrescriptionModalOpen
    \/ isPaymentModalOpen
    \/ PrescriptionViewShown

\* The effect of AppointmentForm runs after the render that set newlyCreatedPatientId,
\* before the next user event.
EffectPending == isAppointmentModalOpen /\ newlyCreatedPatientId # NoId

PageReady == ~AnyModalOpen /\ ~EffectPending

\* AppointmentForm: the patientId the form starts with
InitialFormPatientId ==
    IF editingAppointment # <<>> /\ editingAppointment[1].patientId # NoId
    THEN editingAppointment[1].patientId
    ELSE appointmentForPatientId

\* AppointmentForm is declared in the body of App, so every render of App makes it a
\* new component: React unmounts the form that was there and mounts a new one, whose
\* patientId starts from its initial value again.
MountedPatientId == IF isAppointmentModalOpen THEN InitialFormPatientId ELSE NoId

\* the patientId of the form once App has rendered again, whatever the form held
AfterAppRender(held) == MountedPatientId'

\* Date.now() at a creation: a later value than the last reading or, while
\* sameReadings allows it, the value the creation before it read
ReadClock ==
    \/ /\ now < MaxClock
       /\ now' = now + 1
       /\ UNCHANGED sameReadings
    \/ /\ sameReadings > 0
       /\ now > SeedClock
       /\ now' = now
       /\ sameReadings' = sameReadings - 1

\* ------------------------------------------------------------- navigation
\* Sidebar.handleNavClick
handleNavClick(view) ==
    /\ PageReady
    /\ currentView' = view
    /\ lastOp' = Op("ui", "ok")
    /\ UNCHANGED <<storeVars, selectedPatientId, patientDlgVars, appointmentDlgVars,
                   prescriptionDlgVars, rxViewVars, paymentDlgVars, clockVars, calcVars>>

\* PatientCard onClick, in the patient list
handlePatientSelect(id) ==
    /\ PageReady
    /\ currentView = "patients"
    /\ id \in Ids(patients)
    /\ selectedPatientId' = id
    /\ currentView' = "patientDetail"
    /\ lastOp' = Op("ui", "ok")
    /\ UNCHANGED <<storeVars, patientDlgVars, appointmentDlgVars, prescriptionDlgVars,
                   rxViewVars, paymentDlgVars, clockVars, calcVars>>

\* "Back to Patients" in the patient detail view
BackToPatients ==
    /\ PageReady
    /\ currentView = "patientDetail"
    /\ selectedPatient # <<>>
    /\ currentView' = "patients"
    /\ lastOp' = Op("ui", "ok")
    /\ UNCHANGED <<storeVars, selectedPatientId, patientDlgVars, appointmentDlgVars,
                   prescriptionDlgVars, rxViewVars, paymentDlgVars, clockVars, calcVars>>

\* ------------------------------------------------------------- patients
\* "Add Patient" in the patient list
OpenAddPatient ==
    /\ PageReady
    /\ currentView = "patients"
    /\ editingPatient' = <<>>
    /\ isPatientModalOpen' = TRUE
    /\ lastOp' = Op("ui", "ok")
    /\ UNCHANGED <<storeVars, navVars, isInlinePatientModalOpen, newlyCreatedPatientId,
                   appointmentDlgVars, prescriptionDlgVars, rxViewVars, paymentDlgVars,
                   clockVars, calcVars>>

\* "Edit" in the patient detail view
OpenEditPatient ==
    /\ PageReady
    /\ currentView = "patientDetail"
    /\ selectedPatient # <<>>
    /\ editingPatient' = selectedPatient
    /\ isPatientModalOpen' = TRUE
    /\ lastOp' = Op("ui", "ok")
    /\ UNCHANGED <<storeVars, navVars, isInlinePatientModalOpen, newlyCreatedPatientId,
                   appointmentDlgVars, prescriptionDlgVars, rxViewVars, paymentDlgVars,
                   clockVars, calcVars>>

\* onClose of the patient Modal
ClosePatientModal ==
    /\ isPatientModalOpen
    /\ ~EffectPending
    /\ editingPatient' = <<>>
    /\ isPatientModalOpen' = FALSE
    /\ lastOp' = Op("ui", "ok")
    /\ UNCHANGED <<storeVars, navVars, isInlinePatientModalOpen, newlyCreatedPatientId,
                   appointmentDlgVars, prescriptionDlgVars, rxViewVars, paymentDlgVars,
                   clockVars, calcVars>>

\* faulty variant: the edit forgets to compare the id and rewrites every patient
SavedPatients_everyRecord(patientData, newPatientId) ==
    IF editingPatient # <<>>
    THEN [i \in 1 .. Len(patients) |-> [id |-> patients[i].id, name |-> patientData.name]]
    ELSE Append(patients, [id |-> newPatientId, name |-> patientData.name])

\* faulty variant: a new patient gets the id of the patient before it
SavedPatients_reusedId(patientData, newPatientId) ==
    IF editingPatient # <<>>
    THEN LET Upd(p) == IF p.id = editingPatient[1].id
                       THEN [id |-> p.id, name |-> patientData.name]
                       ELSE p
         IN [i \in 1 .. Len(patients) |-> Upd(patients[i])]
    ELSE Append(patients, [id |-> IF patients = <<>> THEN newPatientId
                                  ELSE patients[Len(patients)].id,
                           name |-> patientData.name])

\* handleSavePatient: the new value of patients
SavedPatients(patientData, newPatientId) ==
    IF editingPatient # <<>>
    THEN LET Upd(p) == IF p.id = editingPatient[1].id
                       THEN [id |-> p.id, name |-> patientData.name]
                       ELSE p
         IN [i \in 1 .. Len(patients) |-> Upd(patients[i])]
    ELSE Append(patients, [id |-> newPatientId, name |-> patientData.name])

handleSavePatient(patientData, isInline) ==
    /\ IF editingPatient = <<>> THEN ReadClock ELSE UNCHANGED clockVars
    /\ patients' = SavedPatients(patientData, now')
    /\ newlyCreatedPatientId' =
           IF editingPatient = <<>> /\ isInline THEN now' ELSE newlyCreatedPatientId
    /\ IF isInline
       THEN /\ isInlinePatientModalOpen' = FALSE
            /\ UNCHANGED <<isPatientModalOpen, editingPatient>>
       ELSE /\ isPatientModalOpen' = FALSE
            /\ editingPatient' = <<>>
            /\ UNCHANGED isInlinePatientModalOpen
    /\ lastOp' = Op("handleSavePatient", "ok")
    /\ UNCHANGED <<appointments, prescriptions, navVars, isAppointmentModalOpen,
                   editingAppointment, appointmentForPatientId,
                   prescriptionDlgVars, rxViewVars, paymentDlgVars, calcVars>>
    /\ formPatientId' = AfterAppRender(formPatientId)

\* PatientForm.handleSubmit, in the patient Modal or in the inline one above the
\* appointment Modal
PatientFormSubmit(name, isInline) ==
    /\ ~EffectPending
    /\ IF isInline THEN isInlinePatientModalOpen
                   ELSE isPatientModalOpen /\ ~isInlinePatientModalOpen
    /\ handleSavePatient([name |-> name], isInline)

\* handleDeletePatient: what the cascade keeps
PatientsWithout(id) == LET Keep(p) == p.id # id IN SelectSeq(patients, Keep)

\* faulty variant: the cascade forgets the appointments
AppointmentsWithoutPatient_kept(id) == appointments

\* handleDeletePatient: the appointments the cascade keeps
AppointmentsWithoutPatient(id) == LET Keep(a) == a.patientId # id IN SelectSeq(appointments, Keep)

\* faulty variant: the cascade forgets the prescriptions
PrescriptionsWithoutPatient_kept(id) == prescriptions

\* handleDeletePatient: the prescriptions the cascade keeps
PrescriptionsWithoutPatient(id) == LET Keep(pr) == pr.patientId # id IN SelectSeq(prescriptions, Keep)

\* faulty variant: the deletion does not wait for the answer
DeleteConfirmed_always(answer) == TRUE

\* window.confirm gates the deletion
DeleteConfirmed(answer) == answer

\* faulty variant: the deletion leaves the view and the selection as they are
handleDeletePatient_staysOnDetail(id, answer) ==
    /\ IF DeleteConfirmed(answer)
       THEN /\ patients' = PatientsWithout(id)
            /\ appointments' = AppointmentsWithoutPatient(id)
            /\ prescriptions' = PrescriptionsWithoutPatient(id)
            /\ UNCHANGED navVars
       ELSE UNCHANGED <<storeVars, navVars>>
    /\ lastOp' = Op("handleDeletePatient", IF answer THEN "confirmed" ELSE "declined")
    /\ UNCHANGED <<patientDlgVars, appointmentDlgVars, prescriptionDlgVars, rxViewVars,
                   paymentDlgVars, clockVars, calcVars>>

handleDeletePatient(id, answer) ==
    /\ IF DeleteConfirmed(answer)
       THEN /\ patients' = PatientsWithout(id)
            /\ appointments' = AppointmentsWithoutPatient(id)
            /\ prescriptions' = PrescriptionsWithoutPatient(id)
            /\ IF selectedPatientId = id
               THEN currentView' = "patients" /\ selectedPatientId' = NoId
               ELSE UNCHANGED navVars
       ELSE UNCHANGED <<storeVars, navVars>>
    /\ lastOp' = Op("handleDeletePatient", IF answer THEN "confirmed" ELSE "declined")
    /\ UNCHANGED <<patientDlgVars, appointmentDlgVars, prescriptionDlgVars, rxViewVars,
                   paymentDlgVars, clockVars, calcVars>>

\* "Delete" in the patient detail view
DeletePatientClick(answer) ==
    /\ PageReady
    /\ currentView = "patientDetail"
    /\ selectedPatient # <<>>
    /\ handleDeletePatient(selectedPatient[1].id, answer)

\* ------------------------------------------------------------- appointments
\* new Date(a.date) > new Date(): only a future appointment shows its edit button
IsFuture(a) == a.date > now

\* "Add" under Appointments in the patient detail view
OpenAddAppointmentForPatient ==
    /\ PageReady
    /\ currentView = "patientDetail"
    /\ selectedPatient # <<>>
    /\ appointmentForPatientId' = selectedPatient[1].id
    /\ editingAppointment' = <<>>
    /\ isAppointmentModalOpen' = TRUE
    /\ formPatientId' = AfterAppRender(formPatientId)
    /\ lastOp' = Op("ui", "ok")
    /\ UNCHANGED <<storeVars, navVars, patientDlgVars, prescriptionDlgVars, rxViewVars,
                   paymentDlgVars, clockVars, calcVars>>

\* "Add Appointment" in the appointment list
OpenAddAppointmentGlobal ==
    /\ PageReady
    /\ currentView = "appointments"
    /\ appointmentForPatientId' = NoId
    /\ editingAppointment' = <<>>
    /\ isAppointmentModalOpen' = TRUE
    /\ formPatientId' = AfterAppRender(formPatientId)
    /\ lastOp' = Op("ui", "ok")
    /\ UNCHANGED <<storeVars, navVars, patientDlgVars, prescriptionDlgVars, rxViewVars,
                   paymentDlgVars, clockVars, calcVars>>

\* the edit button of a row of patientAppointments
OpenEditAppointmentFromDetail(i) ==
    /\ PageReady
    /\ currentView = "patientDetail"
    /\ selectedPatient # <<>>
    /\ appointments[i].patientId = selectedPatientId
    /\ IsFuture(appointments[i])
    /\ editingAppointment' = <<appointments[i]>>
    /\ appointmentForPatientId' = appointments[i].patientId
    /\ isAppointmentModalOpen' = TRUE
    /\ formPatientId' = AfterAppRender(formPatientId)
    /\ lastOp' = Op("ui", "ok")
    /\ UNCHANGED <<storeVars, navVars, patientDlgVars, prescriptionDlgVars, rxViewVars,
                   paymentDlgVars, clockVars, calcVars>>

\* the edit button of a row of the appointment list
OpenEditAppointmentFromList(i) ==
    /\ PageReady
    /\ currentView = "appointments"
    /\ IsFuture(appointments[i])
    /\ editingAppointment' = <<appointments[i]>>
    /\ isAppointmentModalOpen' = TRUE
    /\ UNCHANGED appointmentForPatientId
    /\ formPatientId' = AfterAppRender(formPatientId)
    /\ lastOp' = Op("ui", "ok")
    /\ UNCHANGED <<storeVars, navVars, patientDlgVars,
                   prescriptionDlgVars, rxViewVars, paymentDlgVars, clockVars, calcVars>>

\* the appointment Modal is the topmost dialog
AppointmentFormActive ==
    isAppointmentModalOpen /\ ~isInlinePatientModalOpen /\ ~EffectPending

\* onClose of the appointment Modal
CloseAppointmentModal ==
    /\ AppointmentFormActive
    /\ editingAppointment' = <<>>
    /\ isAppointmentModalOpen' = FALSE
    /\ UNCHANGED appointmentForPatientId
    /\ formPatientId' = AfterAppRender(formPatientId)
    /\ lastOp' = Op("ui", "ok")
    /\ UNCHANGED <<storeVars, navVars, patientDlgVars,
                   prescriptionDlgVars, rxViewVars, paymentDlgVars, clockVars, calcVars>>

\* AppointmentForm: isNewFromGlobal
isNewFromGlobal == editingAppointment = <<>> /\ appointmentForPatientId = NoId

\* "+ Add New Patient" in the patient select of AppointmentForm
OpenInlinePatient ==
    /\ AppointmentFormActive
    /\ isNewFromGlobal
    /\ isInlinePatientModalOpen' = TRUE
    /\ lastOp' = Op("ui", "ok")
    /\ UNCHANGED <<storeVars, navVars, isPatientModalOpen, editingPatient,
                   newlyCreatedPatientId, isAppointmentModalOpen, editingAppointment,
                   appointmentForPatientId, prescriptionDlgVars,
                   rxViewVars, paymentDlgVars, clockVars, calcVars>>
    /\ formPatientId' = AfterAppRender(formPatientId)

\* onClose of the inline patient Modal
CloseInlinePatient ==
    /\ isInlinePatientModalOpen
    /\ ~EffectPending
    /\ isInlinePatientModalOpen' = FALSE
    /\ lastOp' = Op("ui", "ok")
    /\ UNCHANGED <<storeVars, navVars, isPatientModalOpen, editingPatient,
                   newlyCreatedPatientId, isAppointmentModalOpen, editingAppointment,
                   appointmentForPatientId, prescriptionDlgVars,
                   rxViewVars, paymentDlgVars, clockVars, calcVars>>
    /\ formPatientId' = AfterAppRender(formPatientId)

\* useEffect of AppointmentForm on newlyCreatedPatientId: setPatientId on the form and
\* setNewlyCreatedPatientId(null) on App, which renders again
AppointmentFormEffect ==
    /\ EffectPending
    /\ newlyCreatedPatientId' = NoId
    /\ lastOp' = Op("ui", "ok")
    /\ UNCHANGED <<storeVars, navVars, isPatientModalOpen, editingPatient,
                   isInlinePatientModalOpen, isAppointmentModalOpen, editingAppointment,
                   appointmentForPatientId, prescriptionDlgVars,
                   rxViewVars, paymentDlgVars, clockVars, calcVars>>
    /\ formPatientId' = AfterAppRender(newlyCreatedPatientId)

\* faulty variant: the edit computes the status as for a new appointment
EditedPaymentStatus_asNew(totalFee) == calculatePaymentStatus(totalFee, 0)

\* handleSaveAppointment, edit branch: the status stored with the edited fee
EditedPaymentStatus(totalFee) ==
    calculatePaymentStatus(totalFee, getPaidAmount(editingAppointment[1]))

\* faulty variant: the status of a new appointment is computed as if the fee were paid
SavedAppointments_feeAsPaid(appointmentData, newId) ==
    IF editingAppointment # <<>>
    THEN LET paymentStatus == EditedPaymentStatus(appointmentData.totalFee)
             Upd(a) == IF a.id = editingAppointment[1].id
                       THEN [a EXCEPT !.patientId = appointmentData.patientId,
                                      !.date = appointmentData.date,
                                      !.totalFee = appointmentData.totalFee,
                                      !.paymentStatus = paymentStatus]
                       ELSE a
         IN [i \in 1 .. Len(appointments) |-> Upd(appointments[i])]
    ELSE Append(appointments,
                [id |-> newId,
                 patientId |-> appointmentData.patientId,
                 date |-> appointmentData.date,
                 totalFee |-> appointmentData.totalFee,
                 paymentHistory |-> <<>>,
                 paymentStatus |-> calculatePaymentStatus(appointmentData.totalFee,
                                                          appointmentData.totalFee)])

\* handleSaveAppointment: the new value of appointments
SavedAppointments(appointmentData, newId) ==
    IF editingAppointment # <<>>
    THEN LET paymentStatus == EditedPaymentStatus(appointmentData.totalFee)
             Upd(a) == IF a.id = editingAppointment[1].id
                       THEN [a EXCEPT !.patientId = appointmentData.patientId,
                                      !.date = appointmentData.date,
                                      !.totalFee = appointmentData.totalFee,
                                      !.paymentStatus = paymentStatus]
                       ELSE a
         IN [i \in 1 .. Len(appointments) |-> Upd(appointments[i])]
    ELSE Append(appointments,
                [id |-> newId,
                 patientId |-> appointmentData.patientId,
                 date |-> appointmentData.date,
                 totalFee |-> appointmentData.totalFee,
                 paymentHistory |-> <<>>,
                 paymentStatus |-> calculatePaymentStatus(appointmentData.totalFee, 0)])

\* faulty variant: with an empty patientId nothing is stored, but the dialog is closed
handleSaveAppointment_closesOnEmpty(appointmentData) ==
    /\ IF appointmentData.patientId = NoId
       THEN UNCHANGED <<appointments, clockVars>>
       ELSE /\ IF editingAppointment = <<>> THEN ReadClock ELSE UNCHANGED clockVars
            /\ appointments' = SavedAppointments(appointmentData, now')
    /\ isAppointmentModalOpen' = FALSE
    /\ editingAppointment' = <<>>
    /\ appointmentForPatientId' = NoId
    /\ formPatientId' = AfterAppRender(formPatientId)
    /\ lastOp' = OpOn("handleSaveAppointment",
                      IF appointmentData.patientId = NoId THEN "noop" ELSE "ok",
                      0, <<>>, appointmentData.patientId)
    /\ UNCHANGED <<patients, prescriptions, navVars, patientDlgVars,
                   prescriptionDlgVars, rxViewVars, paymentDlgVars, calcVars>>

handleSaveAppointment(appointmentData) ==
    IF appointmentData.patientId = NoId
    THEN /\ lastOp' = OpOn("handleSaveAppointment", "noop", 0, <<>>, appointmentData.patientId)
         /\ UNCHANGED <<storeVars, navVars, patientDlgVars, appointmentDlgVars,
                        prescriptionDlgVars, rxViewVars, paymentDlgVars, clockVars, calcVars>>
    ELSE /\ IF editingAppointment = <<>> THEN ReadClock ELSE UNCHANGED clockVars
         /\ appointments' = SavedAppointments(appointmentData, now')
         /\ isAppointmentModalOpen' = FALSE
         /\ editingAppointment' = <<>>
         /\ appointmentForPatientId' = NoId
         /\ formPatientId' = AfterAppRender(formPatientId)
         /\ lastOp' = OpOn("handleSaveAppointment", "ok", 0, <<>>, appointmentData.patientId)
         /\ UNCHANGED <<patients, prescriptions, navVars, patientDlgVars,
                        prescriptionDlgVars, rxViewVars, paymentDlgVars, calcVars>>

\* onChange of the patient select of AppointmentForm, shown only when isNewFromGlobal:
\* setPatientId, a state of the form, so App does not render
SelectPatient(id) ==
    /\ AppointmentFormActive
    /\ isNewFromGlobal
    /\ id \in Ids(patients)
    /\ formPatientId' = id
    /\ lastOp' = Op("ui", "ok")
    /\ UNCHANGED <<storeVars, navVars, patientDlgVars, isAppointmentModalOpen,
                   editingAppointment, appointmentForPatientId, prescriptionDlgVars,
                   rxViewVars, paymentDlgVars, clockVars, calcVars>>

\* AppointmentForm.handleSubmit
AppointmentFormSubmit(patientId, date, totalFee) ==
    /\ AppointmentFormActive
    /\ patientId = formPatientId
    /\ handleSaveAppointment([patientId |-> patientId, date |-> date, totalFee |-> totalFee])

\* ------------------------------------------------------------- prescriptions
\* "Add" under Prescriptions in the patient detail view
OpenAddPrescriptionForPatient ==
    /\ PageReady
    /\ currentView = "patientDetail"
    /\ selectedPatient # <<>>
    /\ editingPrescription' = <<>>
    /\ prescriptionForPatientId' = selectedPatient[1].id
    /\ isPrescriptionModalOpen' = TRUE
    /\ lastOp' = Op("ui", "ok")
    /\ UNCHANGED <<storeVars, navVars, patientDlgVars, appointmentDlgVars, rxViewVars,
                   paymentDlgVars, clockVars, calcVars>>

\* "Add Prescription" in the prescription list
OpenAddPrescriptionGlobal ==
    /\ PageReady
    /\ currentView = "prescriptions"
    /\ editingPrescription' = <<>>
    /\ prescriptionForPatientId' = NoId
    /\ isPrescriptionModalOpen' = TRUE
    /\ lastOp' = Op("ui", "ok")
    /\ UNCHANGED <<storeVars, navVars, patientDlgVars, appointmentDlgVars, rxViewVars,
                   paymentDlgVars, clockVars, calcVars>>

\* the rows a view lists: patientPrescriptions in the detail view, all in the list
PrescriptionRowShown(i) ==
    \/ currentView = "prescriptions"
    \/ /\ currentView = "patientDetail"
       /\ selectedPatient # <<>>
       /\ prescriptions[i].patientId = selectedPatientId

\* the edit button of a prescription row
OpenEditPrescription(i) ==
    /\ PageReady
    /\ PrescriptionRowShown(i)
    /\ editingPrescription' = <<prescriptions[i]>>
    /\ prescriptionForPatientId' = prescriptions[i].patientId
    /\ isPrescriptionModalOpen' = TRUE
    /\ lastOp' = Op("ui", "ok")
    /\ UNCHANGED <<storeVars, navVars, patientDlgVars, appointmentDlgVars, rxViewVars,
                   paymentDlgVars, clockVars, calcVars>>

\* onClose of the prescription Modal
ClosePrescriptionModal ==
    /\ isPrescriptionModalOpen
    /\ ~EffectPending
    /\ editingPrescription' = <<>>
    /\ isPrescriptionModalOpen' = FALSE
    /\ lastOp' = Op("ui", "ok")
    /\ UNCHANGED <<storeVars, navVars, patientDlgVars, appointmentDlgVars,
                   prescriptionForPatientId, rxViewVars, paymentDlgVars, clockVars, calcVars>>

\* faulty variant: the test forgets trim()
IsNonBlank_noTrim(m) == m.medication # <<>>

\* m.medication.trim() !== ''
IsNonBlank(m) == Trim(m.medication) # <<>>

\* { ...m, id: m.id || `m${Date.now()}${Math.random()}` }
EnsureId(m) == IF m.id # NoId THEN m ELSE [m EXCEPT !.id = now]

\* faulty variant: the blank rows are not removed
cleanedMedications_noFilter(medications) == [i \in 1 .. Len(medications) |-> EnsureId(medications[i])]

\* handleSavePrescription: cleanedMedications
cleanedMedications(medications) == LET kept == SelectSeq(medications, IsNonBlank)
    IN [i \in 1 .. Len(kept) |-> EnsureId(kept[i])]

\* faulty variant: the patient is the one the form was opened for, not the one of the
\* selected appointment
SavedPrescriptions_formPatient(appointmentId, patientId, cleaned, newId) ==
    IF editingPrescription # <<>>
    THEN LET Upd(p) == IF p.id = editingPrescription[1].id
                       THEN [p EXCEPT !.appointmentId = appointmentId,
                                      !.patientId = prescriptionForPatientId,
                                      !.medications = cleaned]
                       ELSE p
         IN [i \in 1 .. Len(prescriptions) |-> Upd(prescriptions[i])]
    ELSE Append(prescriptions,
                [id |-> newId, patientId |-> prescriptionForPatientId,
                 appointmentId |-> appointmentId,
                 medications |-> cleaned, dateIssued |-> newId])

\* handleSavePrescription: the new value of prescriptions
SavedPrescriptions(appointmentId, patientId, cleaned, newId) ==
    IF editingPrescription # <<>>
    THEN LET Upd(p) == IF p.id = editingPrescription[1].id
                       THEN [p EXCEPT !.appointmentId = appointmentId,
                                      !.patientId = patientId,
                                      !.medications = cleaned]
                       ELSE p
         IN [i \in 1 .. Len(prescriptions) |-> Upd(prescriptions[i])]
    ELSE Append(prescriptions,
                [id |-> newId, patientId |-> patientId, appointmentId |-> appointmentId,
                 medications |-> cleaned, dateIssued |-> newId])

\* faulty variant: the save closes the dialog and keeps the prescription being edited
handleSavePrescription_keepsContext(appointmentId, medications) ==
    LET Hit(a) == a.id = appointmentId
        appointment == First(SelectSeq(appointments, Hit))
        cleaned == cleanedMedications(medications)
    IN IF appointment = <<>>
       THEN /\ lastOp' = Op("handleSavePrescription", "console.error")
            /\ UNCHANGED <<storeVars, navVars, patientDlgVars, appointmentDlgVars,
                           prescriptionDlgVars, rxViewVars, paymentDlgVars, clockVars, calcVars>>
       ELSE IF Len(cleaned) = 0
       THEN /\ lastOp' = OpWith("handleSavePrescription", "noop", 0, medications)
            /\ UNCHANGED <<storeVars, navVars, patientDlgVars, appointmentDlgVars,
                           prescriptionDlgVars, rxViewVars, paymentDlgVars, clockVars, calcVars>>
       ELSE /\ IF editingPrescription = <<>> THEN ReadClock ELSE UNCHANGED clockVars
            /\ prescriptions' =
                   SavedPrescriptions(appointmentId, appointment[1].patientId, cleaned, now')
            /\ isPrescriptionModalOpen' = FALSE
            /\ lastOp' = OpWith("handleSavePrescription", "ok", 0, medications)
            /\ UNCHANGED <<patients, appointments, navVars, patientDlgVars,
                           appointmentDlgVars, editingPrescription, prescriptionForPatientId,
                           rxViewVars, paymentDlgVars, calcVars>>

handleSavePrescription(appointmentId, medications) ==
    LET Hit(a) == a.id = appointmentId
        appointment == First(SelectSeq(appointments, Hit))
        cleaned == cleanedMedications(medications)
    IN IF appointment = <<>>
       THEN /\ lastOp' = Op("handleSavePrescription", "console.error")
            /\ UNCHANGED <<storeVars, navVars, patientDlgVars, appointmentDlgVars,
                           prescriptionDlgVars, rxViewVars, paymentDlgVars, clockVars, calcVars>>
       ELSE IF Len(cleaned) = 0
       THEN /\ lastOp' = OpWith("handleSavePrescription", "noop", 0, medications)
            /\ UNCHANGED <<storeVars, navVars, patientDlgVars, appointmentDlgVars,
                           prescriptionDlgVars, rxViewVars, paymentDlgVars, clockVars, calcVars>>
       ELSE /\ IF editingPrescription = <<>> THEN ReadClock ELSE UNCHANGED clockVars
            /\ prescriptions' =
                   SavedPrescriptions(appointmentId, appointment[1].patientId, cleaned, now')
            /\ isPrescriptionModalOpen' = FALSE
            /\ editingPrescription' = <<>>
            /\ prescriptionForPatientId' = NoId
            /\ lastOp' = OpWith("handleSavePrescription", "ok", 0, medications)
            /\ UNCHANGED <<patients, appointments, navVars, patientDlgVars,
                           appointmentDlgVars, rxViewVars, paymentDlgVars, calcVars>>

\* the rows a prescription form submits: between one and MaxRows rows, the i-th with
\* the id it received when the form added it (here i) and any name
FormRows ==
    UNION { { [i \in 1 .. n |-> [id |-> i, medication |-> names[i]]]
              : names \in [1 .. n -> MedNames] }
            : n \in 1 .. MaxRows }

\* PrescriptionForm: the appointments its select offers
AppointmentChoices ==
    LET patientChoices == IF prescriptionForPatientId # NoId
                          THEN {prescriptionForPatientId}
                          ELSE Ids(patients)
    IN {appointments[i].id : i \in {j \in 1 .. Len(appointments) :
                                       appointments[j].patientId \in patientChoices}}
       \cup {NoId}

\* PrescriptionForm.handleSubmit
PrescriptionFormSubmit(appointmentId, medications) ==
    /\ isPrescriptionModalOpen
    /\ ~EffectPending
    /\ IF editingPrescription # <<>>
       THEN appointmentId = editingPrescription[1].appointmentId
       ELSE appointmentId \in AppointmentChoices
    /\ handleSavePrescription(appointmentId, medications)

\* faulty variant: the deletion removes every prescription of the same patient
PrescriptionsWithout_samePatient(id) ==
    LET Hit(pr) == pr.id = id
        target == First(SelectSeq(prescriptions, Hit))
        Keep(pr) == target = <<>> \/ pr.patientId # target[1].patientId
    IN SelectSeq(prescriptions, Keep)

\* handleDeletePrescription: what the deletion keeps
PrescriptionsWithout(id) == LET Keep(pr) == pr.id # id IN SelectSeq(prescriptions, Keep)

handleDeletePrescription(id, answer) ==
    /\ prescriptions' = IF DeleteConfirmed(answer) THEN PrescriptionsWithout(id)
                        ELSE prescriptions
    /\ lastOp' = Op("handleDeletePrescription", IF answer THEN "confirmed" ELSE "declined")
    /\ UNCHANGED <<patients, appointments, navVars, patientDlgVars, appointmentDlgVars,
                   prescriptionDlgVars, rxViewVars, paymentDlgVars, clockVars, calcVars>>

\* the delete button of a prescription row
DeletePrescriptionClick(i, answer) ==
    /\ PageReady
    /\ PrescriptionRowShown(i)
    /\ handleDeletePrescription(prescriptions[i].id, answer)

\* faulty variant: the view dialog opens although the appointment was not found
handlePrintPrescriptionFromList_opensAnyway(prescriptionId) ==
    LET HitP(pr) == pr.id = prescriptionId
        prescription == First(SelectSeq(prescriptions, HitP))
        HitA(a) == prescription # <<>> /\ a.id = prescription[1].appointmentId
        appointment == First(SelectSeq(appointments, HitA))
    IN IF prescription = <<>>
       THEN /\ lastOp' = Op("handlePrintPrescriptionFromList", "console.error")
            /\ UNCHANGED <<storeVars, navVars, patientDlgVars, appointmentDlgVars,
                           prescriptionDlgVars, rxViewVars, paymentDlgVars, clockVars, calcVars>>
       ELSE /\ viewingAppointment' = appointment
            /\ isPrescriptionViewModalOpen' = TRUE
            /\ lastOp' = Op("handlePrintPrescriptionFromList",
                            IF appointment = <<>> THEN "alert" ELSE "ok")
            /\ UNCHANGED <<storeVars, navVars, patientDlgVars, appointmentDlgVars,
                           prescriptionDlgVars, paymentDlgVars, clockVars, calcVars>>

handlePrintPrescriptionFromList(prescriptionId) ==
    LET HitP(pr) == pr.id = prescriptionId
        prescription == First(SelectSeq(prescriptions, HitP))
        HitA(a) == prescription # <<>> /\ a.id = prescription[1].appointmentId
        appointment == First(SelectSeq(appointments, HitA))
    IN IF prescription = <<>>
       THEN /\ lastOp' = Op("handlePrintPrescriptionFromList", "console.error")
            /\ UNCHANGED <<storeVars, navVars, patientDlgVars, appointmentDlgVars,
                           prescriptionDlgVars, rxViewVars, paymentDlgVars, clockVars, calcVars>>
       ELSE IF appointment = <<>>
       THEN /\ lastOp' = Op("handlePrintPrescriptionFromList", "alert")
            /\ UNCHANGED <<storeVars, navVars, patientDlgVars, appointmentDlgVars,
                           prescriptionDlgVars, rxViewVars, paymentDlgVars, clockVars, calcVars>>
       ELSE /\ viewingAppointment' = appointment
            /\ isPrescriptionViewModalOpen' = TRUE
            /\ lastOp' = OpOn("handlePrintPrescriptionFromList", "ok", 0, <<>>,
                              prescriptionId)
            /\ UNCHANGED <<storeVars, navVars, patientDlgVars, appointmentDlgVars,
                           prescriptionDlgVars, paymentDlgVars, clockVars, calcVars>>

\* the print button of a row of the prescription list
PrintPrescriptionClick(i) ==
    /\ PageReady
    /\ currentView = "prescriptions"
    /\ handlePrintPrescriptionFromList(prescriptions[i].id)

\* "View Rx" of a row of patientAppointments
ViewRx(i) ==
    /\ PageReady
    /\ currentView = "patientDetail"
    /\ selectedPatient # <<>>
    /\ appointments[i].patientId = selectedPatientId
    /\ viewingAppointment' = <<appointments[i]>>
    /\ isPrescriptionViewModalOpen' = TRUE
    /\ lastOp' = Op("ui", "ok")
    /\ UNCHANGED <<storeVars, navVars, patientDlgVars, appointmentDlgVars,
                   prescriptionDlgVars, paymentDlgVars, clockVars, calcVars>>

\* PrescriptionViewModal: the prescription it renders, found by the id of the viewed
\* appointment
ViewedPrescription ==
    LET Hit(p) == viewingAppointment # <<>> /\ p.appointmentId = viewingAppointment[1].id
    IN First(SelectSeq(prescriptions, Hit))

\* onClose of the Modal of PrescriptionViewModal
ClosePrescriptionView ==
    /\ PrescriptionViewShown
    /\ ~EffectPending
    /\ viewingAppointment' = <<>>
    /\ isPrescriptionViewModalOpen' = FALSE
    /\ lastOp' = Op("ui", "ok")
    /\ UNCHANGED <<storeVars, navVars, patientDlgVars, appointmentDlgVars,
                   prescriptionDlgVars, paymentDlgVars, clockVars, calcVars>>

\* ------------------------------------------------------------- payments
\* BillingView: balance = a.totalFee - getPaidAmount(a)
Balance(a) == a.totalFee - getPaidAmount(a)

\* "Add Payment" of an expanded billing row, shown while balance > 0
OpenPayment(i) ==
    /\ PageReady
    /\ currentView = "billing"
    /\ Balance(appointments[i]) > 0
    /\ paymentForAppointment' = <<appointments[i]>>
    /\ isPaymentModalOpen' = TRUE
    /\ lastOp' = Op("ui", "ok")
    /\ UNCHANGED <<storeVars, navVars, patientDlgVars, appointmentDlgVars,
                   prescriptionDlgVars, rxViewVars, clockVars, calcVars>>

\* onClose of the payment Modal
ClosePaymentModal ==
    /\ isPaymentModalOpen
    /\ ~EffectPending
    /\ paymentForAppointment' = <<>>
    /\ isPaymentModalOpen' = FALSE
    /\ lastOp' = Op("ui", "ok")
    /\ UNCHANGED <<storeVars, navVars, patientDlgVars, appointmentDlgVars,
                   prescriptionDlgVars, rxViewVars, clockVars, calcVars>>

\* faulty variant: the status is computed from the history before the payment
WithPayment_staleStatus(appt, newPayment) ==
    [appt EXCEPT !.paymentHistory = Append(appt.paymentHistory, newPayment),
                 !.paymentStatus = calculatePaymentStatus(appt.totalFee, getPaidAmount(appt))]

\* faulty variant: the status is computed with the new payment taken off what was paid
WithPayment_subtracted(appt, newPayment) ==
    LET updatedHistory == Append(appt.paymentHistory, newPayment)
        paidAmount == getPaidAmount(appt) - newPayment.amount
        newStatus == calculatePaymentStatus(appt.totalFee, paidAmount)
    IN [appt EXCEPT !.paymentHistory = updatedHistory, !.paymentStatus = newStatus]

\* faulty variant: the payment is put in front of the history
WithPayment_prepend(appt, newPayment) ==
    LET updatedHistory == <<newPayment>> \o appt.paymentHistory
    IN [appt EXCEPT !.paymentHistory = updatedHistory,
                    !.paymentStatus =
                        calculatePaymentStatus(appt.totalFee, SumAmounts(updatedHistory))]

\* handleSavePayment: the appointment with the payment applied
WithPayment(appt, newPayment) ==
    LET updatedHistory == Append(appt.paymentHistory, newPayment)
        paidAmount == SumAmounts(updatedHistory)
        newStatus == calculatePaymentStatus(appt.totalFee, paidAmount)
    IN [appt EXCEPT !.paymentHistory = updatedHistory, !.paymentStatus = newStatus]

\* faulty variant: the payment is applied to every appointment
PaidAppointments_all(newPayment) ==
    [i \in 1 .. Len(appointments) |-> WithPayment(appointments[i], newPayment)]

\* handleSavePayment: the new value of appointments
PaidAppointments(newPayment) ==
    LET Upd(appt) == IF appt.id = paymentForAppointment[1].id
                     THEN WithPayment(appt, newPayment)
                     ELSE appt
    IN [i \in 1 .. Len(appointments) |-> Upd(appointments[i])]

\* faulty variant: the payment dialog stays open, on the appointment as it was
handleSavePayment_staysOpen(amount, method) ==
    IF paymentForAppointment = <<>>
    THEN /\ lastOp' = OpWith("handleSavePayment", "noop", amount, <<>>)
         /\ UNCHANGED <<storeVars, navVars, patientDlgVars, appointmentDlgVars,
                        prescriptionDlgVars, rxViewVars, paymentDlgVars, clockVars, calcVars>>
    ELSE /\ ReadClock
         /\ appointments' = PaidAppointments([id |-> now', date |-> now',
                                              amount |-> amount, method |-> method])
         /\ lastOp' = OpWith("handleSavePayment", "ok", amount, <<>>)
         /\ UNCHANGED <<patients, prescriptions, navVars, patientDlgVars,
                        appointmentDlgVars, prescriptionDlgVars, rxViewVars,
                        paymentDlgVars, calcVars>>

handleSavePayment(amount, method) ==
    IF paymentForAppointment = <<>>
    THEN /\ lastOp' = OpWith("handleSavePayment", "noop", amount, <<>>)
         /\ UNCHANGED <<storeVars, navVars, patientDlgVars, appointmentDlgVars,
                        prescriptionDlgVars, rxViewVars, paymentDlgVars, clockVars, calcVars>>
    ELSE /\ ReadClock
         /\ appointments' = PaidAppointments([id |-> now', date |-> now',
                                              amount |-> amount, method |-> method])
         /\ isPaymentModalOpen' = FALSE
         /\ paymentForAppointment' = <<>>
         /\ lastOp' = OpWith("handleSavePayment", "ok", amount, <<>>)
         /\ UNCHANGED <<patients, prescriptions, navVars, patientDlgVars,
                        appointmentDlgVars, prescriptionDlgVars, rxViewVars, calcVars>>

\* PaymentForm: remainingBalance
remainingBalance ==
    IF paymentForAppointment # <<>> THEN Balance(paymentForAppointment[1]) ELSE 0

\* faulty variant: the test forgets amount > 0
PaymentAccepted_noLowerBound(amount) == amount <= remainingBalance

\* PaymentForm.handleSubmit: the test that lets a payment through
PaymentAccepted(amount) == amount > 0 /\ amount <= remainingBalance

\* PaymentForm.handleSubmit
PaymentFormSubmit(amount, method) ==
    /\ isPaymentModalOpen
    /\ ~EffectPending
    /\ IF PaymentAccepted(amount)
       THEN handleSavePayment(amount, method)
       ELSE /\ lastOp' = OpWith("PaymentForm.handleSubmit", "alert", amount, <<>>)
            /\ UNCHANGED <<storeVars, navVars, patientDlgVars, appointmentDlgVars,
                           prescriptionDlgVars, rxViewVars, paymentDlgVars, clockVars, calcVars>>

\* ------------------------------------------------------------- the application
Next ==
    \/ \E view \in NavViews : handleNavClick(view)
    \/ \E id \in Ids(patients) : handlePatientSelect(id)
    \/ BackToPatients
    \/ OpenAddPatient
    \/ OpenEditPatient
    \/ ClosePatientModal
    \/ \E name \in Names, isInline \in BOOLEAN : PatientFormSubmit(name, isInline)
    \/ \E answer \in BOOLEAN : DeletePatientClick(answer)
    \/ OpenAddAppointmentForPatient
    \/ OpenAddAppointmentGlobal
    \/ \E i \in 1 .. Len(appointments) : OpenEditAppointmentFromDetail(i)
    \/ \E i \in 1 .. Len(appointments) : OpenEditAppointmentFromList(i)
    \/ CloseAppointmentModal
    \/ OpenInlinePatient
    \/ CloseInlinePatient
    \/ AppointmentFormEffect
    \/ \E id \in Ids(patients) : SelectPatient(id)
    \/ \E patientId \in Ids(patients) \cup {NoId}, date \in Dates, totalFee \in Fees :
           AppointmentFormSubmit(patientId, date, totalFee)
    \/ OpenAddPrescriptionForPatient
    \/ OpenAddPrescriptionGlobal
    \/ \E i \in 1 .. Len(prescriptions) : OpenEditPrescription(i)
    \/ ClosePrescriptionModal
    \/ \E appointmentId \in Ids(appointments) \cup {NoId}, medications \in FormRows :
           PrescriptionFormSubmit(appointmentId, medications)
    \/ \E i \in 1 .. Len(prescriptions), answer \in BOOLEAN : DeletePrescriptionClick(i, answer)
    \/ \E i \in 1 .. Len(prescriptions) : PrintPrescriptionClick(i)
    \/ \E i \in 1 .. Len(appointments) : ViewRx(i)
    \/ ClosePrescriptionView
    \/ \E i \in 1 .. Len(appointments) : OpenPayment(i)
    \/ ClosePaymentModal
    \/ \E amount \in Amounts, method \in Methods : PaymentFormSubmit(amount, method)

Spec == Init /\ [][Next]_vars

\* ------------------------------------------------------------- calculatePaymentStatus alone
CalcFees == (0 - 1) .. MaxCalc
CalcPaids == 0 .. MaxCalc

CalcInit ==
    /\ StoreInit /\ UiInit
    /\ calcFee \in CalcFees
    /\ calcPaid \in CalcPaids
    /\ calcStatus = "none"

CalcCall ==
    /\ calcStatus = "none"
    /\ calcStatus' = calculatePaymentStatus(calcFee, calcPaid)
    /\ UNCHANGED <<storeVars, navVars, patientDlgVars, appointmentDlgVars,
                   prescriptionDlgVars, rxViewVars, paymentDlgVars, clockVars, lastOp,
                   calcFee, calcPaid>>

CalcNext == CalcCall

SpecCalc == CalcInit /\ [][CalcNext]_vars

\* ------------------------------------------------------------- the handlers called directly
\* handleSavePrescription and handlePrintPrescriptionFromList take any identifier,
\* also one that no record has, over seed data that may hold a prescription whose
\* appointment is not stored.
MissingId == MaxClock + 2

OrphanPrescriptions ==
    Append(SeedPrescriptions,
           [id |-> 2, patientId |-> 2, appointmentId |-> MissingId,
            medications |-> << [id |-> 1, medication |-> <<" ", "a">>] >>, dateIssued |-> 0])

DirectIds == {NoId, 1, 2, MissingId}

DirectInit ==
    /\ patients = SeedPatients
    /\ appointments = SeedAppointments
    /\ prescriptions \in {SeedPrescriptions, OrphanPrescriptions}
    /\ now = SeedClock
    /\ sameReadings = 0
    /\ lastOp = Op("init", "ok")
    /\ UiInit
    /\ CalcIdle

\* handlePrintPrescriptionFromList(prescriptionId) from the page
DirectPrint(prescriptionId) ==
    /\ PageReady
    /\ handlePrintPrescriptionFromList(prescriptionId)

\* handleSavePrescription({ appointmentId, medications }) from the prescription dialog
DirectSavePrescription(appointmentId, medications) ==
    /\ isPrescriptionModalOpen
    /\ handleSavePrescription(appointmentId, medications)

DirectNext ==
    \/ \E view \in NavViews : handleNavClick(view)
    \/ OpenAddPrescriptionGlobal
    \/ \E i \in 1 .. Len(prescriptions) : OpenEditPrescription(i)
    \/ ClosePrescriptionModal
    \/ ClosePrescriptionView
    \/ \E prescriptionId \in DirectIds : DirectPrint(prescriptionId)
    \/ \E appointmentId \in DirectIds, medications \in FormRows :
           DirectSavePrescription(appointmentId, medications)

SpecDirect == DirectInit /\ [][DirectNext]_vars

\* ------------------------------------------------------------- creations at one clock reading
\* The creation flows of the four kinds of record, with a clock that may give a
\* creation the value it gave the creation before.
SameClockInit ==
    /\ patients = SeedPatients
    /\ appointments = SeedAppointments
    /\ prescriptions = SeedPrescriptions
    /\ now = SeedClock
    /\ sameReadings = MaxSameReadings
    /\ lastOp = Op("init", "ok")
    /\ UiInit
    /\ CalcIdle

SameClockNext ==
    \/ \E view \in NavViews : handleNavClick(view)
    \/ OpenAddPatient
    \/ \E name \in Names : PatientFormSubmit(name, FALSE)
    \/ OpenAddAppointmentGlobal
    \/ \E id \in Ids(patients) : SelectPatient(id)
    \/ \E patientId \in Ids(patients) \cup {NoId}, date \in Dates, totalFee \in Fees :
           AppointmentFormSubmit(patientId, date, totalFee)
    \/ OpenAddPrescriptionGlobal
    \/ \E appointmentId \in Ids(appointments) \cup {NoId}, medications \in FormRows :
           PrescriptionFormSubmit(appointmentId, medications)
    \/ \E i \in 1 .. Len(appointments) : OpenPayment(i)
    \/ \E amount \in Amounts, method \in Methods : PaymentFormSubmit(amount, method)

SpecSameClock == SameClockInit /\ [][SameClockNext]_vars

\* ------------------------------------------------------------- properties
IsPrefix(s, t) == Len(s) <= Len(t) /\ SubSeq(t, 1, Len(s)) = s

\* a name that is empty or holds only spaces
IsBlankName(n) == \A k \in 1 .. Len(n) : n[k] = " "

NonBlankRows(rows) == LET Keep(m) == ~IsBlankName(m.medication) IN SelectSeq(rows, Keep)

PaymentSubmitted(op) == op.op \in {"handleSavePayment", "PaymentForm.handleSubmit"}

\* C1: in every reachable state the payments of each appointment sum to at most its
\* totalFee.
C1_PaidNeverExceedsFee ==
    \A i \in 1 .. Len(appointments) :
        SumAmounts(appointments[i].paymentHistory) <= appointments[i].totalFee

\* C2: calculatePaymentStatus returns Paid exactly when paid >= fee and fee > 0,
\* PartiallyPaid exactly when 0 < paid < fee, and Unpaid in every other case.
C2_StatusCases ==
    calcStatus # "none" =>
        LET full == calcPaid >= calcFee /\ calcFee > 0
            part == 0 < calcPaid /\ calcPaid < calcFee
        IN /\ (calcStatus = Paid) <=> full
           /\ (calcStatus = PartiallyPaid) <=> part
           /\ (calcStatus = Unpaid) <=> (~full /\ ~part)

C2_Witness == calcStatus = Paid /\ calcPaid = calcFee

\* C3: the stored paymentStatus of every appointment is calculatePaymentStatus of its
\* totalFee and the sum of its paymentHistory, after payments and after fee edits.
C3_StatusNeverStale ==
    \A i \in 1 .. Len(appointments) :
        appointments[i].paymentStatus =
            calculatePaymentStatus(appointments[i].totalFee,
                                   SumAmounts(appointments[i].paymentHistory))

\* an appointment with a payment whose fee was then edited down to the paid amount
C3_Witness ==
    /\ lastOp.op = "handleSaveAppointment"
    /\ lastOp.res = "ok"
    /\ \E i \in 1 .. Len(appointments) :
           /\ appointments[i].paymentHistory # <<>>
           /\ appointments[i].totalFee = 1
           /\ appointments[i].paymentStatus = Paid

\* C4: a confirmed deletion of patient P leaves no patient with id P and no appointment
\* or prescription with patientId P, and every other patient, appointment and
\* prescription is still present, unchanged and in the same order.
C4_DeletePatientCascade ==
    [][ (lastOp'.op = "handleDeletePatient" /\ lastOp'.res = "confirmed"
         /\ currentView = "patientDetail" /\ selectedPatient # <<>>)
        => LET P == selectedPatientId
               OtherP(p) == p.id # P
               OtherR(r) == r.patientId # P
           IN /\ \A i \in 1 .. Len(patients') : patients'[i].id # P
              /\ \A i \in 1 .. Len(appointments') : appointments'[i].patientId # P
              /\ \A i \in 1 .. Len(prescriptions') : prescriptions'[i].patientId # P
              /\ \A i \in 1 .. Len(patients) :
                     OtherP(patients[i]) => patients[i] \in Range(patients')
              /\ \A i \in 1 .. Len(appointments) :
                     OtherR(appointments[i]) => appointments[i] \in Range(appointments')
              /\ \A i \in 1 .. Len(prescriptions) :
                     OtherR(prescriptions[i]) => prescriptions[i] \in Range(prescriptions')
              /\ patients' = SelectSeq(patients, OtherP)
              /\ appointments' = SelectSeq(appointments, OtherR)
              /\ prescriptions' = SelectSeq(prescriptions, OtherR)
      ]_vars

\* patient 1 was deleted with its appointment and prescription; patient 2 and its
\* appointment are still there
C4_Witness ==
    /\ lastOp.op = "handleDeletePatient"
    /\ lastOp.res = "confirmed"
    /\ Ids(patients) = {2}
    /\ \E i \in 1 .. Len(appointments) : appointments[i].patientId = 2
    /\ prescriptions = <<>>

\* C5: a payment of amount A submitted for an appointment whose balance is B, with
\* 0 < A <= B, is recorded: one payment of amount A is appended, the balance becomes
\* B - A, the status is calculatePaymentStatus(totalFee, paid + A), and when paid + A
\* reaches a positive fee the status is Paid and the balance 0.
C5_PaymentRecorded ==
    [][ (PaymentSubmitted(lastOp') /\ isPaymentModalOpen /\ paymentForAppointment # <<>>)
        => \A i \in 1 .. Len(appointments) :
               (appointments[i].id = paymentForAppointment[1].id) =>
                   LET a == appointments[i]
                       A == lastOp'.amount
                       B == a.totalFee - SumAmounts(a.paymentHistory)
                   IN (0 < A /\ A <= B) =>
                          /\ lastOp'.res = "ok"
                          /\ Len(appointments') = Len(appointments)
                          /\ LET b == appointments'[i]
                             IN /\ Len(b.paymentHistory) = Len(a.paymentHistory) + 1
                                /\ IsPrefix(a.paymentHistory, b.paymentHistory)
                                /\ b.paymentHistory[Len(b.paymentHistory)].amount = A
                                /\ b.totalFee - SumAmounts(b.paymentHistory) = B - A
                                /\ b.paymentStatus =
                                       calculatePaymentStatus(a.totalFee,
                                                              SumAmounts(a.paymentHistory) + A)
                                /\ (SumAmounts(a.paymentHistory) + A = a.totalFee
                                    /\ a.totalFee > 0)
                                       => /\ b.paymentStatus = Paid
                                          /\ b.totalFee - SumAmounts(b.paymentHistory) = 0
      ]_vars

\* the second payment of an appointment brought it to Paid with balance 0
C5_Witness ==
    /\ lastOp.op = "handleSavePayment"
    /\ lastOp.res = "ok"
    /\ \E i \in 1 .. Len(appointments) :
           /\ Len(appointments[i].paymentHistory) = 2
           /\ appointments[i].paymentStatus = Paid
           /\ SumAmounts(appointments[i].paymentHistory) = appointments[i].totalFee

\* C6: a payment whose amount is not in (0, remaining balance], the balance being the
\* one the payment dialog shows for its appointment, is rejected with an alert and
\* applied in no part: the three collections are unchanged and the payment dialog
\* stays open on the same appointment.
C6_PaymentRejected ==
    [][ (PaymentSubmitted(lastOp') /\ isPaymentModalOpen /\ paymentForAppointment # <<>>)
        => LET A == lastOp'.amount
               B == paymentForAppointment[1].totalFee
                    - SumAmounts(paymentForAppointment[1].paymentHistory)
           IN (A <= 0 \/ A > B) =>
                  /\ lastOp'.res = "alert"
                  /\ UNCHANGED <<patients, appointments, prescriptions>>
                  /\ isPaymentModalOpen'
                  /\ paymentForAppointment' = paymentForAppointment
      ]_vars

\* an amount above the balance was submitted and refused
C6_Witness ==
    /\ lastOp.res = "alert"
    /\ isPaymentModalOpen
    /\ paymentForAppointment # <<>>
    /\ lastOp.amount > paymentForAppointment[1].totalFee
                       - SumAmounts(paymentForAppointment[1].paymentHistory)

\* C7: for every appointment that stays in the store, each step leaves its
\* paymentHistory as it was or extends it at the end: the earlier history is a prefix
\* of the later one.
C7_HistoryAppendOnly ==
    [][ \A i \in 1 .. Len(appointments) :
            \A j \in 1 .. Len(appointments') :
                (appointments[i].id = appointments'[j].id) =>
                    IsPrefix(appointments[i].paymentHistory, appointments'[j].paymentHistory)
      ]_vars

\* a payment was appended after the seed payment of appointment 2
C7_Witness ==
    \E i \in 1 .. Len(appointments) :
        /\ Len(appointments[i].paymentHistory) = 2
        /\ appointments[i].paymentHistory[1] = SeedAppointments[2].paymentHistory[1]
        /\ appointments[i].paymentHistory[2].method = "Card"

\* C8: saving a prescription whose rows all have blank names (empty or only spaces)
\* changes nothing, when creating and when editing.
C8_BlankPrescriptionNotSaved ==
    [][ (lastOp'.op = "handleSavePrescription" /\ isPrescriptionModalOpen
         /\ lastOp'.res # "console.error"
         /\ \A k \in 1 .. Len(lastOp'.rows) : IsBlankName(lastOp'.rows[k].medication))
        => UNCHANGED <<patients, appointments, prescriptions>>
      ]_vars

\* an edit of a prescription submitted two rows, '' and ' ', and nothing was saved
C8_Witness ==
    /\ lastOp.op = "handleSavePrescription"
    /\ lastOp.res = "noop"
    /\ editingPrescription # <<>>
    /\ Len(lastOp.rows) = 2
    /\ lastOp.rows[1].medication = <<>>
    /\ lastOp.rows[2].medication = <<" ">>
    /\ prescriptions = SeedPrescriptions

\* every stored prescription has a medication and none with a blank name
NoEmptyPrescription ==
    \A i \in 1 .. Len(prescriptions) :
        /\ Len(prescriptions[i].medications) >= 1
        /\ \A k \in 1 .. Len(prescriptions[i].medications) :
               ~IsBlankName(prescriptions[i].medications[k].medication)

\* C9: the prescription handleSavePrescription writes holds exactly the submitted rows
\* with a non-blank name, in their order; so no stored prescription is ever without a
\* medication or with a blank one.
C9_PrescriptionItems ==
    /\ NoEmptyPrescription
    /\ [][ /\ NoEmptyPrescription'
           /\ (lastOp'.op = "handleSavePrescription" /\ lastOp'.res = "ok"
               /\ isPrescriptionModalOpen)
              => /\ NonBlankRows(lastOp'.rows) # <<>>
                 /\ IF editingPrescription # <<>>
                    THEN \A j \in 1 .. Len(prescriptions') :
                             (prescriptions'[j].id = editingPrescription[1].id) =>
                                 prescriptions'[j].medications = NonBlankRows(lastOp'.rows)
                    ELSE /\ Len(prescriptions') = Len(prescriptions) + 1
                         /\ prescriptions'[Len(prescriptions')].medications
                                = NonBlankRows(lastOp'.rows)
         ]_vars

\* two rows were submitted, the first blank, and the second alone was stored
C9_Witness ==
    /\ lastOp.op = "handleSavePrescription"
    /\ lastOp.res = "ok"
    /\ Len(lastOp.rows) = 2
    /\ IsBlankName(lastOp.rows[1].medication)
    /\ \E j \in 1 .. Len(prescriptions) : prescriptions[j].medications = <<lastOp.rows[2]>>

\* a record of the collection s is gone from t
Disappears(s, t) == Len(t) < Len(s) \/ ~(Ids(s) \subseteq Ids(t))

\* C10: a declined confirmation changes neither the collections nor the view nor the
\* selected patient, and a record leaves a collection only in a step whose confirmation
\* was accepted.
C10_DeletionNeedsConfirmation ==
    [][ /\ (lastOp'.res = "declined")
               => UNCHANGED <<patients, appointments, prescriptions, currentView,
                              selectedPatientId>>
        /\ (\/ Disappears(patients, patients')
            \/ Disappears(appointments, appointments')
            \/ Disappears(prescriptions, prescriptions'))
               => lastOp'.res = "confirmed"
      ]_vars

\* the deletion of a patient was declined and the patient is still shown
C10_Witness ==
    /\ lastOp.op = "handleDeletePatient"
    /\ lastOp.res = "declined"
    /\ currentView = "patientDetail"
    /\ selectedPatient # <<>>
    /\ patients = SeedPatients

\* a handler that ended because a record it refers to was not found
MissingEntityAbort(op) ==
    /\ op.op \in {"handleSavePrescription", "handlePrintPrescriptionFromList"}
    /\ op.res \in {"console.error", "alert"}

\* C11: a save of a prescription or a print that ends because the appointment or the
\* prescription is not found changes nothing: the collections, the viewed appointment
\* and every dialog flag are as before; and a save or print that does go through refers
\* to a stored appointment.
C11_AbortWithoutMutation ==
    [][ /\ MissingEntityAbort(lastOp')
            => UNCHANGED <<patients, appointments, prescriptions, viewingAppointment,
                           isPatientModalOpen, isInlinePatientModalOpen,
                           isAppointmentModalOpen, isPrescriptionModalOpen,
                           isPrescriptionViewModalOpen, isPaymentModalOpen>>
        /\ (lastOp'.op = "handlePrintPrescriptionFromList" /\ lastOp'.res = "ok")
            => /\ viewingAppointment' # <<>>
               /\ viewingAppointment'[1] \in Range(appointments)
        /\ (lastOp'.op = "handleSavePrescription" /\ lastOp'.res = "ok")
            => \A j \in 1 .. Len(prescriptions') :
                   (prescriptions'[j] \notin Range(prescriptions))
                       => prescriptions'[j].appointmentId \in Ids(appointments)
      ]_vars

\* the print of the prescription whose appointment is not stored ended with the alert
\* and the view dialog stayed closed
C11_Witness ==
    /\ lastOp.op = "handlePrintPrescriptionFromList"
    /\ lastOp.res = "alert"
    /\ prescriptions = OrphanPrescriptions
    /\ ~isPrescriptionViewModalOpen
    /\ viewingAppointment = <<>>

\* C12: every save or print that ends because a record is not found shows the user a
\* notice (an alert).
C12_AbortGivesNotice ==
    [][ MissingEntityAbort(lastOp') => lastOp'.res = "alert" ]_vars

\* C13: every appointment belongs to a stored patient, and every prescription belongs
\* to a stored patient and to a stored appointment.
C13_ReferentialIntegrity ==
    /\ \A i \in 1 .. Len(appointments) : appointments[i].patientId \in Ids(patients)
    /\ \A i \in 1 .. Len(prescriptions) :
           /\ prescriptions[i].patientId \in Ids(patients)
           /\ prescriptions[i].appointmentId \in Ids(appointments)

\* patient 1 was deleted with its records, and a prescription was then created for the
\* appointment of patient 2
C13_Witness ==
    /\ lastOp.op = "handleSavePrescription"
    /\ lastOp.res = "ok"
    /\ Ids(patients) = {2}
    /\ Len(prescriptions) = 1
    /\ prescriptions[1].patientId = 2
    /\ prescriptions[1].appointmentId = 2

\* the records of a collection have different ids
DistinctIds(s) == \A i, j \in 1 .. Len(s) : (i # j) => (s[i].id # s[j].id)

FreshIds ==
    /\ DistinctIds(patients)
    /\ DistinctIds(appointments)
    /\ DistinctIds(prescriptions)
    /\ \A i \in 1 .. Len(appointments) : DistinctIds(appointments[i].paymentHistory)

\* C14 as stated: in every state the ids of each collection and of each payment history
\* are pairwise distinct, also after two creations at one clock reading.
C14_FreshIds == FreshIds

\* C14 amended: the ids of each collection and of each payment history are pairwise
\* distinct as long as no creation has read the clock value an earlier creation read.
C14_FreshIdsAtDistinctReadings == (sameReadings = MaxSameReadings) => FreshIds

\* a patient was created at a new clock reading
C14_Witness ==
    /\ lastOp.op = "handleSavePatient"
    /\ sameReadings = MaxSameReadings
    /\ Len(patients) = Len(SeedPatients) + 1
    /\ patients[Len(patients)].id = now
    /\ now > SeedClock

\* the collection t holds the records of s with the same ids at the same places, and
\* every record whose id is not `id` as it was
SameButFor(s, t, id) ==
    /\ Len(t) = Len(s)
    /\ \A i \in 1 .. Len(s) :
           /\ t[i].id = s[i].id
           /\ (s[i].id # id) => (t[i] = s[i])

\* C15: an edit of a patient, an appointment or a prescription keeps the ids and the
\* number of records of its collection, leaves every record with another id as it was,
\* and leaves the two other collections unchanged.
C15_UpdateFrame ==
    [][ /\ (lastOp'.op = "handleSavePatient" /\ editingPatient # <<>>)
            => /\ SameButFor(patients, patients', editingPatient[1].id)
               /\ UNCHANGED <<appointments, prescriptions>>
        /\ (lastOp'.op = "handleSaveAppointment" /\ lastOp'.res = "ok"
             /\ editingAppointment # <<>>)
            => /\ SameButFor(appointments, appointments', editingAppointment[1].id)
               /\ UNCHANGED <<patients, prescriptions>>
        /\ (lastOp'.op = "handleSavePrescription" /\ lastOp'.res = "ok"
             /\ editingPrescription # <<>>)
            => /\ SameButFor(prescriptions, prescriptions', editingPrescription[1].id)
               /\ UNCHANGED <<patients, appointments>>
      ]_vars

\* patient 2 was renamed: patient 1, the appointments and the prescriptions are as in
\* the seed data
C15_Witness ==
    /\ lastOp.op = "handleSavePatient"
    /\ Len(patients) = 2
    /\ patients[1] = SeedPatients[1]
    /\ patients[2] = [id |-> 2, name |-> "Ann"]
    /\ appointments = SeedAppointments
    /\ prescriptions = SeedPrescriptions

\* C16: calculatePaymentStatus(0, paid) is Unpaid for every paid >= 0, and every stored
\* appointment whose totalFee is 0 has the status Unpaid.
C16_ZeroFeeUnpaid ==
    /\ \A paid \in 0 .. MaxCalc : calculatePaymentStatus(0, paid) = Unpaid
    /\ \A i \in 1 .. Len(appointments) :
           (appointments[i].totalFee = 0) => (appointments[i].paymentStatus = Unpaid)

\* the fee of an appointment with a payment was edited to 0 and its status is Unpaid
C16_Witness ==
    /\ lastOp.op = "handleSaveAppointment"
    /\ \E i \in 1 .. Len(appointments) :
           /\ appointments[i].totalFee = 0
           /\ SumAmounts(appointments[i].paymentHistory) > 0
           /\ appointments[i].paymentStatus = Unpaid

\* C17: a created appointment is added at the end with an empty paymentHistory and the
\* status Unpaid (the status of every fee with nothing paid), so its balance is its
\* totalFee; the appointments before it, the patients and the prescriptions are
\* unchanged.
C17_NewAppointment ==
    [][ (lastOp'.op = "handleSaveAppointment" /\ lastOp'.res = "ok"
         /\ editingAppointment = <<>>)
        => /\ Len(appointments') = Len(appointments) + 1
           /\ SubSeq(appointments', 1, Len(appointments)) = appointments
           /\ LET a == appointments'[Len(appointments')]
              IN /\ a.paymentHistory = <<>>
                 /\ a.paymentStatus = Unpaid
                 /\ a.totalFee - SumAmounts(a.paymentHistory) = a.totalFee
           /\ \A fee \in CalcFees : calculatePaymentStatus(fee, 0) = Unpaid
           /\ UNCHANGED <<patients, prescriptions>>
      ]_vars

\* an appointment with the largest fee was created: it is Unpaid and the seed
\* appointments are before it
C17_Witness ==
    /\ lastOp.op = "handleSaveAppointment"
    /\ lastOp.res = "ok"
    /\ Len(appointments) = Len(SeedAppointments) + 1
    /\ SubSeq(appointments, 1, Len(SeedAppointments)) = SeedAppointments
    /\ appointments[Len(appointments)].id = now
    /\ appointments[Len(appointments)].totalFee = MaxFee
    /\ appointments[Len(appointments)].paymentStatus = Unpaid

C19_PrescriptionPatient ==
    \A j \in 1 .. Len(prescriptions) :
        /\ \E i \in 1 .. Len(appointments) :
               appointments[i].id = prescriptions[j].appointmentId
        /\ \A i \in 1 .. Len(appointments) :
               (appointments[i].id = prescriptions[j].appointmentId)
                   => (prescriptions[j].patientId = appointments[i].patientId)

\* a prescription was created from the prescription list for the appointment of
\* patient 2, and it belongs to patient 2
C19_Witness ==
    /\ lastOp.op = "handleSavePrescription"
    /\ lastOp.res = "ok"
    /\ \E j \in 1 .. Len(prescriptions) :
           /\ prescriptions[j].id = now
           /\ prescriptions[j].appointmentId = 2
           /\ prescriptions[j].patientId = 2

\* the stored appointment with the id of the snapshot has its totalFee and its
\* paymentHistory
SnapshotFresh(snapshot) ==
    \E i \in 1 .. Len(appointments) :
        /\ appointments[i].id = snapshot.id
        /\ appointments[i].totalFee = snapshot.totalFee
        /\ appointments[i].paymentHistory = snapshot.paymentHistory

SnapshotsFresh ==
    /\ (isPaymentModalOpen /\ paymentForAppointment # <<>>)
           => SnapshotFresh(paymentForAppointment[1])
    /\ (isAppointmentModalOpen /\ editingAppointment # <<>>)
           => SnapshotFresh(editingAppointment[1])

\* C20: while the payment dialog or the edit-appointment dialog is open, its snapshot
\* has the totalFee and the paymentHistory of the stored appointment with its id; so
\* a payment the form accepts leaves the stored appointment with payments that sum to
\* at most its fee.
C20_SnapshotMatchesStore ==
    /\ SnapshotsFresh
    /\ [][ /\ SnapshotsFresh'
           /\ (lastOp'.op = "handleSavePayment" /\ lastOp'.res = "ok")
              => \A i \in 1 .. Len(appointments') :
                     (appointments'[i].id = paymentForAppointment[1].id)
                         => SumAmounts(appointments'[i].paymentHistory)
                                <= appointments'[i].totalFee
         ]_vars

\* the payment dialog is open on an appointment whose fee was edited before, and its
\* snapshot has the edited fee
C20_Witness ==
    /\ isPaymentModalOpen
    /\ paymentForAppointment # <<>>
    /\ paymentForAppointment[1].totalFee = 1
    /\ paymentForAppointment[1] \in Range(appointments)

\* C21: when handlePrintPrescriptionFromList(id) has opened the prescription view, the
\* prescription the view renders is the prescription with that id.
C21_PrintShowsThePrescription ==
    (lastOp.op = "handlePrintPrescriptionFromList" /\ lastOp.res = "ok")
        => /\ ViewedPrescription # <<>>
           /\ ViewedPrescription[1].id = lastOp.id

\* the order of the payment statuses: Unpaid, Partially Paid, Paid
StatusRank(status) == IF status = Paid THEN 2 ELSE IF status = PartiallyPaid THEN 1 ELSE 0

\* C22: a step that records a payment moves no appointment's status backwards (from
\* Paid to Partially Paid or Unpaid, from Partially Paid to Unpaid), and the appointment
\* that receives the payment had a balance above 0 before the step.
C22_StatusNeverBackwards ==
    [][ (lastOp'.op = "handleSavePayment" /\ lastOp'.res = "ok")
        => /\ Len(appointments') = Len(appointments)
           /\ \A i \in 1 .. Len(appointments) :
                  /\ StatusRank(appointments'[i].paymentStatus)
                         >= StatusRank(appointments[i].paymentStatus)
                  /\ (appointments'[i] # appointments[i])
                         => (appointments[i].totalFee
                                - SumAmounts(appointments[i].paymentHistory) > 0)
      ]_vars

\* a payment was recorded for the partially paid appointment, which is Paid now and
\* has no balance left
C22_Witness ==
    /\ lastOp.op = "handleSavePayment"
    /\ lastOp.res = "ok"
    /\ \E i \in 1 .. Len(appointments) :
           /\ Len(appointments[i].paymentHistory) = 2
           /\ appointments[i].paymentStatus = Paid
           /\ appointments[i].totalFee = SumAmounts(appointments[i].paymentHistory)

\* C23: recording a payment changes only the paymentHistory and the paymentStatus of
\* the appointment the payment dialog was opened for: its other fields, every other
\* appointment, the patients and the prescriptions are unchanged.
C23_PaymentFrame ==
    [][ (lastOp'.op = "handleSavePayment" /\ lastOp'.res = "ok")
        => /\ UNCHANGED <<patients, prescriptions>>
           /\ Len(appointments') = Len(appointments)
           /\ \A i \in 1 .. Len(appointments) :
                  IF appointments[i].id = paymentForAppointment[1].id
                  THEN /\ appointments'[i].id = appointments[i].id
                       /\ appointments'[i].patientId = appointments[i].patientId
                       /\ appointments'[i].date = appointments[i].date
                       /\ appointments'[i].totalFee = appointments[i].totalFee
                       /\ appointments'[i].paymentHistory # appointments[i].paymentHistory
                  ELSE appointments'[i] = appointments[i]
      ]_vars

\* a payment was recorded for the second appointment and the first appointment, which
\* has a balance too, is as it was
C23_Witness ==
    /\ lastOp.op = "handleSavePayment"
    /\ lastOp.res = "ok"
    /\ Len(appointments) = 2
    /\ appointments[1] = SeedAppointments[1]
    /\ Len(appointments[2].paymentHistory) = 2

\* in the patient-detail view the selection is a stored patient
DetailHasPatient == (currentView = "patientDetail") => (selectedPatientId \in Ids(patients))

\* C24: whenever the current view is the patient-detail view, selectedPatientId is the
\* id of a stored patient; a step that enters the view sets the selection with it, and a
\* confirmed deletion of the selected patient switches to the patient list and clears
\* the selection in the same step.
C24_DetailViewHasPatient ==
    /\ DetailHasPatient
    /\ [][ /\ DetailHasPatient'
           /\ (currentView # "patientDetail" /\ currentView' = "patientDetail")
                  => (selectedPatientId' \in Ids(patients))
           /\ (/\ lastOp'.op = "handleDeletePatient"
               /\ lastOp'.res = "confirmed"
               /\ selectedPatientId \notin Ids(patients'))
                  => (currentView' = "patients" /\ selectedPatientId' = NoId)
         ]_vars

\* the selected patient was deleted from the detail view, and afterwards the remaining
\* patient was selected
C24_Witness ==
    /\ currentView = "patientDetail"
    /\ Len(patients) = 1
    /\ selectedPatientId = patients[1].id
    /\ Len(appointments) = 1

\* C25: handleSaveAppointment with an empty patientId changes nothing: the patients,
\* the appointments and the prescriptions, the clock (no id is generated), and the
\* appointment dialog with its editing context are as they were.
C25_EmptyPatientNoOp ==
    [][ (lastOp'.op = "handleSaveAppointment" /\ lastOp'.id = NoId)
        => UNCHANGED <<storeVars, clockVars, appointmentDlgVars, navVars, patientDlgVars,
                       prescriptionDlgVars, rxViewVars, paymentDlgVars>>
      ]_vars

\* the new-appointment form was submitted without a patient, and the dialog is still
\* open on the unchanged store
C25_Witness ==
    /\ lastOp.op = "handleSaveAppointment"
    /\ lastOp.id = NoId
    /\ isAppointmentModalOpen
    /\ editingAppointment = <<>>
    /\ appointments = SeedAppointments
    /\ now = SeedClock

\* a dialog that is closed holds no record to edit or to pay for
ClosedDialogsHoldNothing ==
    /\ ~isPatientModalOpen => editingPatient = <<>>
    /\ ~isAppointmentModalOpen => editingAppointment = <<>>
    /\ ~isPrescriptionModalOpen => editingPrescription = <<>>
    /\ ~isPaymentModalOpen => paymentForAppointment = <<>>

\* t is s with one record added at its end
OneAdded(s, t) == Len(t) = Len(s) + 1 /\ SubSeq(t, 1, Len(s)) = s

\* C26: a successful save closes its dialog and clears its editing context; a closed
\* dialog therefore holds no record, and a save from a dialog that was opened to add
\* stores one more record and leaves the records that were there as they were.
C26_SaveClearsContext ==
    /\ ClosedDialogsHoldNothing
    /\ [][ /\ ClosedDialogsHoldNothing'
           /\ (lastOp'.op = "handleSavePatient" /\ lastOp'.res = "ok")
                  => /\ editingPatient' = <<>>
                     /\ IF isInlinePatientModalOpen
                        THEN ~isInlinePatientModalOpen'
                        ELSE ~isPatientModalOpen'
                     /\ (editingPatient = <<>>) => OneAdded(patients, patients')
           /\ (lastOp'.op = "handleSaveAppointment" /\ lastOp'.res = "ok")
                  => /\ ~isAppointmentModalOpen'
                     /\ editingAppointment' = <<>>
                     /\ appointmentForPatientId' = NoId
                     /\ (editingAppointment = <<>>) => OneAdded(appointments, appointments')
           /\ (lastOp'.op = "handleSavePrescription" /\ lastOp'.res = "ok")
                  => /\ ~isPrescriptionModalOpen'
                     /\ editingPrescription' = <<>>
                     /\ prescriptionForPatientId' = NoId
                     /\ (editingPrescription = <<>>)
                            => OneAdded(prescriptions, prescriptions')
           /\ (lastOp'.op = "handleSavePayment" /\ lastOp'.res = "ok")
                  => /\ ~isPaymentModalOpen'
                     /\ paymentForAppointment' = <<>>
         ]_vars

\* a prescription was edited and saved, and after that a prescription was added from
\* the list: the edited one is still there and the new one follows it
C26_Witness ==
    /\ lastOp.op = "handleSavePrescription"
    /\ lastOp.res = "ok"
    /\ Len(prescriptions) = 2
    /\ prescriptions[1].id = SeedPrescriptions[1].id
    /\ prescriptions[1] # SeedPrescriptions[1]
    /\ ~isPrescriptionModalOpen
    /\ editingPrescription = <<>>

\* C27: a patient added inline from the new-appointment dialog is a new patient at the
\* end of the unchanged list, its id is recorded in newlyCreatedPatientId, the inline
\* dialog alone is closed; when newlyCreatedPatientId is reset, the appointment form,
\* still open, holds that patient as its selection, which is the patientId its submit
\* passes to handleSaveAppointment.
C27_InlinePatientSelected ==
    [][ /\ (lastOp'.op = "handleSavePatient" /\ isInlinePatientModalOpen)
               => /\ OneAdded(patients, patients')
                  /\ newlyCreatedPatientId' = patients'[Len(patients')].id
                  /\ ~isInlinePatientModalOpen'
                  /\ isAppointmentModalOpen'
        /\ (newlyCreatedPatientId # NoId /\ newlyCreatedPatientId' = NoId)
               => /\ formPatientId' = newlyCreatedPatientId
                  /\ isAppointmentModalOpen'
      ]_vars

=============================================================================
